---------------------------- MODULE Spec2Model ----------------------------
(***************************************************************************)
(* A model of octodns' CloudflareProvider (src/octodns/provider/           *)
(* cloudflare.py): the wire record codec, the change filter, the paginated *)
(* and cached zone/record directory, the Create/Update/Delete             *)
(* reconciliation and _apply, run against a model of the remote REST      *)
(* service.                                                               *)
(*                                                                         *)
(* Strings that the code takes apart (names, targets, TXT values) are      *)
(* sequences of one-character strings: "a.z." is <<"a", ".", "z", ".">>.   *)
(* Python dicts are functions from keys to values; lists are sequences.    *)
(***************************************************************************)
EXTENDS Integers, Sequences, FiniteSets, TLC

VARIABLES
    zones,          \* self._zones: <<>> for None, else <<name -> id>>
    zone_records,   \* self._zone_records: zone name -> list of wire records
    remote,         \* the remote service: its zones, its records, its id counter
    lastOp,         \* what the last operation was given, did and returned
    hist,           \* observer: applies begun/completed and the age of the cache
    probe           \* inputs and outputs of the pure functions under check

vars == <<zones, zone_records, remote, lastOp, hist, probe>>

-----------------------------------------------------------------------------
(* Bounds of the model *)

\* longest list of live wire records of the scene in an initial zone
MaxLive == 3
\* most wire records the remote zone may hold (applies that would exceed it are not taken)
MaxRecords == 5
\* most items a listing of the pagination check serves
MaxItems == 6
\* largest page size of the pagination check
MaxPerPage == 3
\* the page size of the service in the engine and lifecycle specifications
PerPage == 2
\* most operations of one provider instance in the lifecycle specification
MaxOps == 2
\* value positions the lifecycle specification's records draw from
LifeValues == 2

-----------------------------------------------------------------------------
(* Program constants *)

MIN_TTL == 120

SUPPORTS == {"ALIAS", "A", "AAAA", "CAA", "CNAME", "MX", "NS", "SPF", "TXT"}

\* The literal 120 of _include_change (it does not use MIN_TTL)
IncludeFloor == 120

-----------------------------------------------------------------------------
(* Strings *)

Max(a, b) == IF a >= b THEN a ELSE b

Range(s) == {s[i] : i \in 1..Len(s)}

\* s[:-1]
DropLast(s) == SubSeq(s, 1, Len(s) - 1)

\* '{}.'.format(s)
WithDot(s) == s \o <<".">>

\* Python's s.replace(old, new): left to right, non-overlapping
RECURSIVE Replace(_, _, _)
Replace(s, old, new) ==
    IF Len(s) < Len(old) THEN s
    ELSE IF SubSeq(s, 1, Len(old)) = old
         THEN new \o Replace(SubSeq(s, Len(old) + 1, Len(s)), old, new)
         ELSE <<s[1]>> \o Replace(Tail(s), old, new)

Semi == <<";">>
EscSemi == <<"\\", ";">>

-----------------------------------------------------------------------------
(* The zone and its canonical records (octodns.record / octodns.zone)      *)

\* zone.name of the zone under management
ZoneName == <<"z", ".">>
\* a second zone name, unknown to the remote service until it is created
NewZoneName == <<"y", ".">>

Root == <<>>
Sub == <<"a">>
Names == {Root, Sub}

\* Record.fqdn: '{}.{}'.format(name, zone.name) if name else zone.name
Fqdn(zname, name) == IF name = <<>> THEN zname ELSE name \o <<".">> \o zname

\* Zone.hostname_from_fqdn: the name relative to the zone, '' for the zone itself
hostname_from_fqdn(zname, wname) ==
    LET z == DropLast(zname)
    IN  IF wname = z THEN <<>>
        ELSE IF Len(wname) > Len(z) + 1
                /\ SubSeq(wname, Len(wname) - Len(z), Len(wname)) = <<".">> \o z
             THEN SubSeq(wname, 1, Len(wname) - Len(z) - 1)
             ELSE wname

SingleValued(t) == t \in {"CNAME", "ALIAS"}

\* Record.data: the ttl and the value(s), as Change comparisons see it
RecordData(r) ==
    IF SingleValued(r.type) THEN [ttl |-> r.ttl, value |-> r.value]
    ELSE [ttl |-> r.ttl, values |-> r.values]

-----------------------------------------------------------------------------
(* Wire Record Codec: encode, the _contents_for_ family and _gen_contents   *)

contents_for_multiple(record) ==
    [i \in 1..Len(record.values) |-> [content |-> record.values[i]]]

contents_for_CAA(record) ==
    [i \in 1..Len(record.values) |->
        [data |-> [flags |-> record.values[i].flags,
                   tag   |-> record.values[i].tag,
                   value |-> record.values[i].value]]]

contents_for_TXT(record) ==
    [i \in 1..Len(record.values) |->
        [content |-> Replace(record.values[i], EscSemi, Semi)]]

contents_for_CNAME(record) == << [content |-> record.value] >>

contents_for_MX(record) ==
    [i \in 1..Len(record.values) |->
        [priority |-> record.values[i].preference,
         content  |-> record.values[i].exchange]]

\* getattr(self, '_contents_for_{}'.format(_type))
contents_for(t, record) ==
    CASE t \in {"A", "AAAA", "NS", "SPF"} -> contents_for_multiple(record)
      [] t = "CAA"   -> contents_for_CAA(record)
      [] t = "TXT"   -> contents_for_TXT(record)
      [] t = "CNAME" -> contents_for_CNAME(record)
      [] t = "MX"    -> contents_for_MX(record)

\* the wire type _gen_contents sends for a record type
WireType(t) == IF t = "ALIAS" THEN "CNAME" ELSE t

\* a variant of gen_contents that sends the record's TTL as it is
gen_contents_unclamped(record) ==
    LET name == DropLast(Fqdn(record.zone, record.name))
        t    == WireType(record.type)
        cs   == contents_for(t, record)
    IN  [i \in 1..Len(cs) |-> [name |-> name, type |-> t, ttl |-> record.ttl] @@ cs[i]]

gen_contents(record) ==
    LET name == DropLast(Fqdn(record.zone, record.name))
        t    == WireType(record.type)
        ttl  == Max(MIN_TTL, record.ttl)
        cs   == contents_for(t, record)
    IN  [i \in 1..Len(cs) |-> [name |-> name, type |-> t, ttl |-> ttl] @@ cs[i]]

-----------------------------------------------------------------------------
(* Wire Record Codec: decode, the _data_for_ family                        *)

Contents(records) == [i \in 1..Len(records) |-> records[i].content]

data_for_multiple(t, records) ==
    [ttl |-> records[1].ttl, type |-> t, values |-> Contents(records)]

\* a variant of data_for_TXT that leaves the content as it is
data_for_TXT_raw(t, records) ==
    [ttl |-> records[1].ttl, type |-> t, values |-> Contents(records)]

data_for_TXT(t, records) ==
    [ttl |-> records[1].ttl, type |-> t,
     values |-> [i \in 1..Len(records) |-> Replace(records[i].content, Semi, EscSemi)]]

data_for_CAA(t, records) ==
    [ttl |-> records[1].ttl, type |-> t,
     values |-> [i \in 1..Len(records) |-> records[i].data]]

data_for_CNAME(t, records) ==
    [ttl |-> records[1].ttl, type |-> t, value |-> WithDot(records[1].content)]

data_for_MX(t, records) ==
    [ttl |-> records[1].ttl, type |-> t,
     values |-> [i \in 1..Len(records) |->
                    [preference |-> records[i].priority,
                     exchange   |-> WithDot(records[i].content)]]]

data_for_NS(t, records) ==
    [ttl |-> records[1].ttl, type |-> t,
     values |-> [i \in 1..Len(records) |-> WithDot(records[i].content)]]

\* getattr(self, '_data_for_{}'.format(_type))
data_for(t, records) ==
    CASE t \in {"A", "AAAA", "SPF"}  -> data_for_multiple(t, records)
      [] t = "TXT"                   -> data_for_TXT(t, records)
      [] t = "CAA"                   -> data_for_CAA(t, records)
      [] t \in {"CNAME", "ALIAS"}    -> data_for_CNAME(t, records)
      [] t = "MX"                    -> data_for_MX(t, records)
      [] t = "NS"                    -> data_for_NS(t, records)

\* populate's substitution: a root CNAME is an ALIAS
\* a variant of DecodedType that keeps the wire type
DecodedType_wire(name, t) == t

DecodedType(name, t) == IF t = "CNAME" /\ name = <<>> THEN "ALIAS" ELSE t


-----------------------------------------------------------------------------
(* Content fingerprint: _hash_content = hash(dumps(content, sort_keys=True)) *)

\* every key a fragment or its nested data can carry, in sorted order
SortedKeyNames == <<"content", "data", "flags", "name", "priority", "tag", "ttl", "type", "value">>

InDomain(d, k) == k \in DOMAIN d

SortedKeys(d) == SelectSeq(SortedKeyNames, LAMBDA k : InDomain(d, k))

\* dumps(d, sort_keys=True) of a flat dict: its items in key order
DumpsFlat(d) == LET ks == SortedKeys(d) IN [i \in 1..Len(ks) |-> <<ks[i], d[ks[i]]>>]

\* dumps(content, sort_keys=True): nested dicts ("data" of CAA) are dumped sorted too
Dumps(content) ==
    LET ks == SortedKeys(content)
    IN  [i \in 1..Len(ks) |->
            <<ks[i], IF ks[i] = "data" THEN DumpsFlat(content[ks[i]]) ELSE content[ks[i]]>>]

\* hash() of the dumped text is taken to be collision free
hash_content(content) == Dumps(content)

Hashes(contents) == {hash_content(contents[i]) : i \in 1..Len(contents)}

-----------------------------------------------------------------------------
(* The remote service.  It stores the content of CNAME, MX and NS records  *)
(* without the trailing dot (the decode side and _apply_Update append it), *)
(* gives every zone and record a fresh id and appends new records to the   *)
(* zone's listing.                                                         *)

DotTypes == {"CNAME", "MX", "NS"}

StripDot(s) == IF Len(s) > 0 /\ s[Len(s)] = "." THEN DropLast(s) ELSE s

\* the wire record the service keeps for a create/update payload
Stored(data, zid, rid) ==
    LET norm == IF data.type \in DotTypes
                THEN [data EXCEPT !.content = StripDot(@)]
                ELSE data
    IN  [id |-> rid, zone_id |-> zid] @@ norm

NoData == <<>>

\* One wire call: method, resource, ids (0 when the path has none), page, json body
Call(method, what, zid, rid, page, data) ==
    [method |-> method, what |-> what, zone_id |-> zid, id |-> rid,
     page |-> page, data |-> data]

IsCreate(c)     == c.method = "POST" /\ c.what = "dns_records"
IsUpdate(c)     == c.method = "PUT"
IsDelete(c)     == c.method = "DELETE"
IsCreateZone(c) == c.method = "POST" /\ c.what = "zones"
IsList(c)       == c.method = "GET"
IsMutation(c)   == ~IsList(c)

HasZone(rem, zid) == \E i \in 1..Len(rem.zones) : rem.zones[i].id = zid

HasRecord(rem, zid, rid) ==
    \E i \in 1..Len(rem.records) : rem.records[i].id = rid /\ rem.records[i].zone_id = zid

\* the status the service answers when nothing goes wrong on the way
NaturalStatus(rem, c) ==
    IF IsCreate(c) THEN (IF HasZone(rem, c.zone_id) THEN 200 ELSE 404)
    ELSE IF IsUpdate(c) \/ IsDelete(c)
         THEN (IF HasRecord(rem, c.zone_id, c.id) THEN 200 ELSE 404)
         ELSE 200

\* the service's state after it has carried out a call
RemoteApply(rem, c) ==
    IF IsCreate(c)
    THEN [rem EXCEPT !.records = Append(@, Stored(c.data, c.zone_id, rem.nextId)),
                     !.nextId = @ + 1]
    ELSE IF IsUpdate(c)
    THEN [rem EXCEPT !.records =
            [i \in 1..Len(@) |-> IF @[i].id = c.id THEN Stored(c.data, c.zone_id, c.id) ELSE @[i]]]
    ELSE IF IsDelete(c)
    THEN [rem EXCEPT !.records = SelectSeq(@, LAMBDA r : r.id # c.id)]
    ELSE IF IsCreateZone(c)
    THEN [rem EXCEPT !.zones = Append(@, [name |-> c.data.name, id |-> rem.nextId]),
                     !.nextId = @ + 1]
    ELSE rem

Min(a, b) == IF a <= b THEN a ELSE b

\* what a listing holds
Listed(rem, c) ==
    IF c.what = "zones" THEN rem.zones
    ELSE SelectSeq(rem.records, LAMBDA r : r.zone_id = c.zone_id)

\* the json body of the answer to call c, the service being in state rem
\* (rem is the state before the call: a created zone gets rem.nextId)
Response(rem, c) ==
    IF IsList(c)
    THEN LET items == Listed(rem, c)
             page  == SubSeq(items, (c.page - 1) * rem.per_page + 1,
                             Min(c.page * rem.per_page, Len(items)))
         IN  [result |-> page,
              result_info |-> [count |-> Len(page), per_page |-> rem.per_page]]
    ELSE IF IsCreateZone(c) THEN [result |-> [id |-> rem.nextId]]
    ELSE [result |-> NoData]

-----------------------------------------------------------------------------
(* _request.  The handlers below thread a run state st through their wire  *)
(* calls: the provider's caches, the service, the calls made so far, the   *)
(* exception raised ("none" while running) and the value returned.  Once   *)
(* an exception is raised nothing more of the handler runs.                *)

\* requests' Response.raise_for_status
RaisesForStatus(status) == status >= 400 /\ status < 600

\* the exception _request raises on a status: lines 68-73
request_raises(status) ==
    IF status = 403 THEN "CloudflareAuthenticationError"
    ELSE IF RaisesForStatus(status) THEN "HTTPError"
    ELSE "none"

Running(st) == st.raised = "none"

\* the status call number n gets: the injected one, else the service's own
StatusOf(st, c) ==
    IF st.fail.at = Len(st.calls) + 1 THEN st.fail.status ELSE NaturalStatus(st.remote, c)

\* whether resp.json() can parse the body of call number n's answer: the
\* service's own answers are json, an injected answer may have an empty body
JsonBody(st) == st.fail.at = Len(st.calls) + 1 => st.fail.json

\* what _request does with the status of the answer: lines 68-74
respond(st, c, status) ==
    [st EXCEPT !.calls  = Append(@, [call |-> c, status |-> status]),
               !.raised = IF request_raises(status) = "none" /\ ~JsonBody(st)
                          THEN "ValueError" ELSE request_raises(status),
               !.remote = IF status = 200 THEN RemoteApply(@, c) ELSE @,
               !.ok     = status = 200,
               !.ret    = Response(st.remote, c)]

request(st, c) ==
    IF ~Running(st) THEN st ELSE respond(st, c, StatusOf(st, c))

\* indexing resp['result'] of an answer that is json but not the 2xx document
need_result(st) ==
    IF Running(st) /\ ~st.ok THEN [st EXCEPT !.raised = "KeyError"] ELSE st

Raise(st, exc) == IF Running(st) THEN [st EXCEPT !.raised = exc] ELSE st

Return(st, v) == IF Running(st) THEN [st EXCEPT !.ret = v] ELSE st


-----------------------------------------------------------------------------
(* Zone/Record Directory: the zones property and zone_records              *)

NoMap == <<>>

\* {'{}.'.format(z['name']): z['id'] for z in zones}: a later item wins
ZoneMap(zs) ==
    LET names == {WithDot(zs[i].name) : i \in 1..Len(zs)}
        last(n) == CHOOSE i \in 1..Len(zs) :
                      /\ WithDot(zs[i].name) = n
                      /\ \A j \in 1..Len(zs) : WithDot(zs[j].name) = n => j <= i
    IN  [n \in names |-> zs[last(n)].id]

\* the page loop of zones: lines 79-88; returns the accumulated list
RECURSIVE zones_pages(_, _, _)

\* lines 83-88: s1 is the run after the request of the page
zones_page_got(s1, page, acc) ==
    IF ~Running(s1) THEN s1
    ELSE IF s1.ret.result_info.count > 0
            /\ s1.ret.result_info.count = s1.ret.result_info.per_page
         THEN zones_pages(s1, page + 1, acc \o s1.ret.result)
         ELSE Return(s1, acc \o s1.ret.result)

zones_pages(st, page, acc) ==
    zones_page_got(need_result(request(st, Call("GET", "zones", 0, 0, page, NoData))),
                   page, acc)

\* line 90: s1 is the run after the page loop
zones_fetched(s1) ==
    IF ~Running(s1) THEN s1
    ELSE [s1 EXCEPT !.zones = <<ZoneMap(s1.ret)>>, !.ret = ZoneMap(s1.ret)]

\* the zones property: returns self._zones, fetched on first use
zones_property(st) ==
    IF ~Running(st) THEN st
    ELSE IF st.zones # <<>> THEN Return(st, st.zones[1])
    ELSE zones_fetched(zones_pages(st, 1, <<>>))

\* the page loop of zone_records: lines 159-169
RECURSIVE records_pages(_, _, _, _)

\* lines 164-169: s1 is the run after the request of the page
records_page_got(s1, zone_id, page, acc) ==
    IF ~Running(s1) THEN s1
    ELSE IF s1.ret.result_info.count > 0
            /\ s1.ret.result_info.count = s1.ret.result_info.per_page
         THEN records_pages(s1, zone_id, page + 1, acc \o s1.ret.result)
         ELSE Return(s1, acc \o s1.ret.result)

\* a variant of records_pages that stops after the page it asked for
records_pages_once(st, zone_id, page, acc) ==
    LET s1 == need_result(request(st, Call("GET", "dns_records", zone_id, 0, page, NoData)))
    IN  IF ~Running(s1) THEN s1 ELSE Return(s1, acc \o s1.ret.result)

records_pages(st, zone_id, page, acc) ==
    records_page_got(
        need_result(request(st, Call("GET", "dns_records", zone_id, 0, page, NoData))),
        zone_id, page, acc)

\* line 171: s2 is the run after the page loop
records_fetched(s2, zname) ==
    IF ~Running(s2) THEN s2
    ELSE [s2 EXCEPT !.zone_records = (zname :> s2.ret) @@ @]

\* lines 155-171: s1 is the run after self.zones
records_of_zone(s1, zname) ==
    IF ~Running(s1) THEN s1
    ELSE IF zname \notin DOMAIN s1.ret THEN Return(s1, <<>>)
    ELSE records_fetched(records_pages(s1, s1.ret[zname], 1, <<>>), zname)

zone_records_of(st, zname) ==
    IF ~Running(st) THEN st
    ELSE IF zname \in DOMAIN st.zone_records THEN Return(st, st.zone_records[zname])
    ELSE records_of_zone(zones_property(st), zname)

-----------------------------------------------------------------------------
(* populate: the wire records of the zone, grouped by relative name and    *)
(* type and decoded; returns the set of (name, data) it hands Record.new   *)

Group(zname, records, name, t) ==
    SelectSeq(records, LAMBDA r : hostname_from_fqdn(zname, r.name) = name /\ r.type = t)

Decoded(zname, records) ==
    LET keys == {<<hostname_from_fqdn(zname, records[i].name), records[i].type>> :
                    i \in {j \in 1..Len(records) : records[j].type \in SUPPORTS}}
    IN  {[name |-> k[1],
          data |-> data_for(DecodedType(k[1], k[2]), Group(zname, records, k[1], k[2]))] :
            k \in keys}

\* lines 181-200: s1 is the run after self.zone_records(zone)
populate_decoded(s1, zname) ==
    IF ~Running(s1) THEN s1 ELSE Return(s1, Decoded(zname, s1.ret))

populate(st, zname) == populate_decoded(zone_records_of(st, zname), zname)


-----------------------------------------------------------------------------
(* Reconciliation Engine: _apply_Create, _apply_Update, _apply_Delete       *)

\* for content in contents[i..]: self._request('POST', path, data=content)
RECURSIVE post_each(_, _, _, _)
post_each(st, zone_id, contents, i) ==
    IF ~Running(st) \/ i > Len(contents) THEN st
    ELSE post_each(request(st, Call("POST", "dns_records", zone_id, 0, 0, contents[i])),
                   zone_id, contents, i + 1)

\* s1 is the run after self.zones
zone_id_in(s1, zname) ==
    IF ~Running(s1) THEN s1
    ELSE IF zname \in DOMAIN s1.ret THEN Return(s1, s1.ret[zname])
    ELSE Raise(s1, "KeyError")

\* self.zones[name]: a KeyError when the name has no id
zone_id_of(st, zname) == zone_id_in(zones_property(st), zname)

\* lines 276-278: s1 is the run after the zone id was looked up
create_posts(s1, change) ==
    IF ~Running(s1) THEN s1
    ELSE post_each(s1, s1.ret, gen_contents(change.new), 1)

apply_Create(st, change) == create_posts(zone_id_of(st, change.new.zone), change)

\* a variant of adds_of that also adds the wanted fragments that are live
adds_of_all(change, order) ==
    LET new == gen_contents(change.new)
        picked == SelectSeq(order, LAMBDA i : i <= Len(new))
    IN  [k \in 1..Len(picked) |-> new[picked[k]]]

\* the fragments of new whose fingerprint existing does not have: lines 315-321.
\* new_contents is a dict keyed by fingerprint, so the adds come in the order
\* it iterates, which the code does not choose: order lists the positions of
\* gen_contents(new) in that order.
adds_of(change, order) ==
    LET existing_contents == Hashes(gen_contents(change.existing))
        new == gen_contents(change.new)
        picked == SelectSeq(order, LAMBDA i : i <= Len(new)
                                /\ hash_content(new[i]) \notin existing_contents)
    IN  [k \in 1..Len(picked) |-> new[picked[k]]]

\* keys = existing_contents.values()[0].keys()
keys_of(change) == DOMAIN gen_contents(change.existing)[1]

\* the dict of the relevant keys of a live record, with the dot the service dropped
live_content(record, keys, t) ==
    LET content == [k \in keys |-> record[k]]
    IN  IF t \in {"CNAME", "MX", "NS"}
        THEN [content EXCEPT !["content"] = WithDot(@)]
        ELSE content

\* a variant of update_matches that compares the name only
update_matches_name(change, record) ==
    DropLast(Fqdn(change.new.zone, change.new.name)) = record.name

\* whether the scan of _apply_Update takes a live record for this change's: line 330
update_matches(change, record) ==
    DropLast(Fqdn(change.new.zone, change.new.name)) = record.name
        /\ change.new.type = record.type

\* the loop over the zone's records: lines 329-353; returns the adds left over
RECURSIVE update_scan(_, _, _, _, _)

\* a variant of update_scan that swaps in the add that came last
RECURSIVE update_scan_lifo(_, _, _, _, _)
update_scan_lifo(st, change, records, i, adds) ==
    IF ~Running(st) THEN st
    ELSE IF i > Len(records) THEN Return(st, adds)
    ELSE IF update_matches(change, records[i])
            /\ hash_content(live_content(records[i], keys_of(change), change.new.type))
                  \notin Hashes(gen_contents(change.new))
         THEN IF adds # <<>>
              THEN update_scan_lifo(
                      request(st, Call("PUT", "dns_records", records[i].zone_id,
                                       records[i].id, 0, adds[Len(adds)])),
                      change, records, i + 1, DropLast(adds))
              ELSE update_scan_lifo(
                      request(st, Call("DELETE", "dns_records", records[i].zone_id,
                                       records[i].id, 0, NoData)),
                      change, records, i + 1, adds)
         ELSE update_scan_lifo(st, change, records, i + 1, adds)

update_scan(st, change, records, i, adds) ==
    IF ~Running(st) THEN st
    ELSE IF i > Len(records) THEN Return(st, adds)
    ELSE LET record == records[i]
         IN  IF update_matches(change, record)
                /\ hash_content(live_content(record, keys_of(change), change.new.type))
                      \notin Hashes(gen_contents(change.new))
             THEN IF adds # <<>>
                  THEN update_scan(
                          request(st, Call("PUT", "dns_records", record.zone_id, record.id,
                                           0, Head(adds))),
                          change, records, i + 1, Tail(adds))
                  ELSE update_scan(
                          request(st, Call("DELETE", "dns_records", record.zone_id,
                                           record.id, 0, NoData)),
                          change, records, i + 1, adds)
             ELSE update_scan(st, change, records, i + 1, adds)

\* lines 355-359: s3 is the run after the scan, its value the adds left over
update_creates(s3, zone_id) ==
    IF ~Running(s3) THEN s3 ELSE post_each(s3, zone_id, s3.ret, 1)

\* lines 329-359: s2 is the run after self.zone_records(change.new.zone)
update_with_records(s2, zone_id, change, order) ==
    IF ~Running(s2) THEN s2
    ELSE update_creates(update_scan(s2, change, s2.ret, 1, adds_of(change, order)),
                        zone_id)

\* lines 323-359: s1 is the run after the zone id was looked up
update_with_zone(s1, change, order) ==
    IF ~Running(s1) THEN s1
    ELSE update_with_records(zone_records_of(s1, change.new.zone), s1.ret, change, order)

apply_Update(st, change, order) ==
    update_with_zone(zone_id_of(st, change.new.zone), change, order)

\* a variant of delete_matches that compares the name only
delete_matches_name(change, record) ==
    DropLast(Fqdn(change.existing.zone, change.existing.name)) = record.name

delete_matches(change, record) ==
    DropLast(Fqdn(change.existing.zone, change.existing.name)) = record.name
        /\ change.existing.type = record.type

RECURSIVE delete_scan(_, _, _, _)
delete_scan(st, change, records, i) ==
    IF ~Running(st) \/ i > Len(records) THEN st
    ELSE IF delete_matches(change, records[i])
         THEN delete_scan(
                  request(st, Call("DELETE", "dns_records", records[i].zone_id,
                                   records[i].id, 0, NoData)),
                  change, records, i + 1)
         ELSE delete_scan(st, change, records, i + 1)

\* lines 364-369: s1 is the run after self.zone_records(existing.zone)
delete_listed(s1, change) ==
    IF ~Running(s1) THEN s1 ELSE delete_scan(s1, change, s1.ret, 1)

apply_Delete(st, change) ==
    delete_listed(zone_records_of(st, change.existing.zone), change)

-----------------------------------------------------------------------------
(* Zone Provisioner: _apply                                                 *)

\* getattr(self, '_apply_{}'.format(class_name))(change)
dispatch(st, change, order) ==
    CASE change.kind = "Create" -> apply_Create(st, change)
      [] change.kind = "Update" -> apply_Update(st, change, order)
      [] change.kind = "Delete" -> apply_Delete(st, change)

\* for change in changes; orders[i] is the dict order met while applying change i
RECURSIVE apply_changes(_, _, _, _)

\* a variant of apply_changes that takes the changes from the last to the first
RECURSIVE apply_changes_backwards(_, _, _, _)
apply_changes_backwards(st, changes, orders, i) ==
    IF ~Running(st) \/ i > Len(changes) THEN st
    ELSE apply_changes_backwards(
            dispatch(st, changes[Len(changes) + 1 - i], orders[Len(changes) + 1 - i]),
            changes, orders, i + 1)

apply_changes(st, changes, orders, i) ==
    IF ~Running(st) \/ i > Len(changes) THEN st
    ELSE apply_changes(dispatch(st, changes[i], orders[i]), changes, orders, i + 1)

\* lines 385-387: s2 is the run after the zone was created
zone_created(s2, name) ==
    IF ~Running(s2) THEN s2
    ELSE [s2 EXCEPT !.zones = <<(name :> s2.ret.result.id) @@ @[1]>>,
                    !.zone_records = (name :> <<>>) @@ @]

\* lines 377-387: s1 is the run after self.zones
zone_ensured(s1, name) ==
    IF ~Running(s1) \/ name \in DOMAIN s1.ret THEN s1
    ELSE zone_created(
            need_result(request(s1, Call("POST", "zones", 0, 0, 0,
                                         [name |-> DropLast(name), jump_start |-> FALSE]))),
            name)

\* lines 376-387: create the zone when its name has no id
ensure_zone(st, name) == zone_ensured(zones_property(st), name)

\* self._zone_records.pop(name, None)
Evict(cache, name) == [n \in DOMAIN cache \ {name} |-> cache[n]]

\* a variant of applied that drops the cache entry of an aborted run too
applied_always(s2, name) == [s2 EXCEPT !.zone_records = Evict(@, name)]

\* line 394: s2 is the run after the loop over the changes
applied(s2, name) ==
    IF ~Running(s2) THEN s2 ELSE [s2 EXCEPT !.zone_records = Evict(@, name)]

apply(st, plan, orders) ==
    applied(apply_changes(ensure_zone(st, plan.desired), plan.changes, orders, 1),
            plan.desired)


-----------------------------------------------------------------------------
(* The records the model applies: three values of every supported type,    *)
(* and a fourth of type A                                                   *)

Universe(t) ==
    CASE t = "A"    -> << <<"1">>, <<"2">>, <<"3">>, <<"4">> >>
      [] t = "AAAA" -> << <<":", "1">>, <<":", "2">>, <<":", "3">> >>
      [] t = "SPF"  -> << <<"s", "1">>, <<"s", "2">>, <<"s", "3">> >>
      [] t = "TXT"  -> << <<"t">>, <<"\\", ";">>, <<"t", "\\", ";", "t">> >>
      [] t = "NS"   -> << <<"n", "1", ".">>, <<"n", "2", ".">>, <<"n", "3", ".">> >>
      [] t \in {"CNAME", "ALIAS"}
                    -> << <<"c", "1", ".">>, <<"c", "2", ".">>, <<"c", "3", ".">> >>
      [] t = "MX"   -> << [preference |-> 10, exchange |-> <<"m", "1", ".">>],
                          [preference |-> 20, exchange |-> <<"m", "2", ".">>],
                          [preference |-> 10, exchange |-> <<"m", "3", ".">>] >>
      [] t = "CAA"  -> << [flags |-> 0, tag |-> "issue", value |-> <<"c", "a">>],
                          [flags |-> 0, tag |-> "issuewild", value |-> <<"c", "a">>],
                          [flags |-> 128, tag |-> "iodef", value |-> <<"m">>] >>

\* the positions every type has a value at, and those type A has
Positions == 1..Len(Universe("TXT"))
WidePositions == 1..Len(Universe("A"))

\* the values at the positions S, in the universe's (sorted) order
Pick(t, S) ==
    LET idx == SelectSeq([i \in 1..Len(Universe(t)) |-> i], LAMBDA i : i \in S)
    IN  [k \in 1..Len(idx) |-> Universe(t)[idx[k]]]

\* the canonical record of type t at name with the values at positions S
Rec(zname, name, t, ttl, S) ==
    IF SingleValued(t)
    THEN [zone |-> zname, name |-> name, type |-> t, ttl |-> ttl,
          value |-> Universe(t)[CHOOSE i \in S : TRUE]]
    ELSE [zone |-> zname, name |-> name, type |-> t, ttl |-> ttl, values |-> Pick(t, S)]

ValueSets(t, P) ==
    IF SingleValued(t) THEN {{i} : i \in P} ELSE (SUBSET P) \ {{}}

RecordsAt(zname, name, t, ttls, P) ==
    {Rec(zname, name, t, ttl, S) : ttl \in ttls, S \in ValueSets(t, P)}

\* the abstract changes over a set of canonical records of one name and type
ChangesOver(recs) ==
    {[kind |-> "Create", new |-> r] : r \in recs}
        \cup {[kind |-> "Delete", existing |-> r] : r \in recs}
        \cup {[kind |-> "Update", existing |-> e, new |-> n] : e \in recs, n \in recs}

\* the orders a dict of up to n entries can iterate in
Perms(n) == {p \in [1..n -> 1..n] : \A i, j \in 1..n : p[i] = p[j] => i = j}

IdOrder == [i \in WidePositions |-> i]

\* one dict order for each distinct sequence of adds the change can meet
OrdersOf(change) ==
    IF change.kind # "Update" THEN {IdOrder}
    ELSE LET all == Perms(Len(IdOrder))
             seqs == {adds_of(change, o) : o \in all}
         IN  {CHOOSE o \in all : adds_of(change, o) = a : a \in seqs}


-----------------------------------------------------------------------------
(* Change Filter: _include_change                                           *)

\* Change.record: new if there is one, existing otherwise
ChangeRecord(change) == IF change.kind = "Delete" THEN change.existing ELSE change.new

\* a variant of include_change that compares the data without the clamp
include_change_unclamped(change, base) ==
    IF ChangeRecord(change).type = "NS" /\ ChangeRecord(change).name = <<>> THEN FALSE
    ELSE IF change.kind = "Update" /\ RecordData(change.new) = RecordData(change.existing)
         THEN FALSE
         ELSE base

\* a variant of include_change that excludes NS changes at every name
include_change_any_ns(change, base) ==
    IF ChangeRecord(change).type = "NS" THEN FALSE
    ELSE IF change.kind = "Update"
            /\ [RecordData(change.new) EXCEPT !.ttl = Max(IncludeFloor, @)]
                  = RecordData(change.existing)
         THEN FALSE
         ELSE base

\* base is what super()._include_change(change) answers
include_change(change, base) ==
    IF ChangeRecord(change).type = "NS" /\ ChangeRecord(change).name = <<>> THEN FALSE
    ELSE IF change.kind = "Update"
            /\ [RecordData(change.new) EXCEPT !.ttl = Max(IncludeFloor, @)]
                  = RecordData(change.existing)
         THEN FALSE
         ELSE base

\* the changes a plan can carry: the planner emits an Update only for records
\* that differ, and the plan keeps the changes the filter does not exclude
Planned(changes) ==
    {c \in changes : include_change(c, TRUE) /\ (c.kind = "Update" => c.existing # c.new)}

-----------------------------------------------------------------------------
(* The operations as actions.  lastOp keeps what the operation was given   *)
(* (plan, dict orders, injected answer), the service's records before it,  *)
(* the wire calls it made, the exception it raised and what it returned.   *)

NoFail == [at |-> 0, status |-> 200, json |-> TRUE]

NoPlan == [desired |-> <<>>, changes |-> <<>>]

InitOp ==
    [op |-> "init", zone |-> <<>>, plan |-> NoPlan, orders |-> <<>>, fail |-> NoFail,
     calls |-> <<>>, raised |-> "none", ret |-> {}, before |-> <<>>,
     cached |-> FALSE, known |-> FALSE, listed |-> FALSE, hosted |-> 0,
     evicted |-> {}, prev |-> <<>>]

Start(fail) ==
    [zones |-> zones, zone_records |-> zone_records, remote |-> remote,
     calls |-> <<>>, raised |-> "none", ok |-> TRUE, ret |-> <<>>, fail |-> fail]

\* what an operation remembers of the one before it (kept where hist.keep says
\* the run compares consecutive operations)
Summary(op) == [op EXCEPT !.prev = <<>>, !.ret = {}]

\* the zone name has an id in self._zones
Known(zname) == zones # <<>> /\ zname \in DOMAIN zones[1]

\* the id the service has for the zone name, 0 when it has none
HostedId(rem, zname) ==
    IF zname \in DOMAIN ZoneMap(rem.zones) THEN ZoneMap(rem.zones)[zname] ELSE 0

\* the zone names whose cache entry was there before an apply to that zone
\* (done: a completed one) and is still there
Aged(s, op, zname, done) ==
    {z \in DOMAIN s.zone_records \cap DOMAIN zone_records :
        \/ z \in (IF done THEN hist.agedDone ELSE hist.aged)
        \/ (op = "apply" /\ z = zname /\ (done => Running(s)))}

Finish(s, op, zname, plan, orders) ==
    /\ s.fail.at <= Len(s.calls)
    /\ zones' = s.zones
    /\ zone_records' = s.zone_records
    /\ remote' = s.remote
    /\ hist' = [hist EXCEPT !.ops = @ + 1,
                            !.aged = Aged(s, op, zname, FALSE),
                            !.agedDone = Aged(s, op, zname, TRUE)]
    /\ lastOp' = [op |-> op, zone |-> zname, plan |-> plan, orders |-> orders,
                  fail |-> s.fail, calls |-> s.calls, raised |-> s.raised,
                  ret |-> IF op = "populate" /\ Running(s) THEN s.ret ELSE {},
                  before |-> remote.records, cached |-> zname \in DOMAIN zone_records,
                  known |-> Known(zname), listed |-> zones # <<>>,
                  hosted |-> HostedId(remote, zname),
                  evicted |-> DOMAIN zone_records \ DOMAIN s.zone_records,
                  prev |-> IF hist.keep THEN Summary(lastOp) ELSE <<>>]

DoApply(plan, orders, fail) ==
    Finish(apply(Start(fail), plan, orders), "apply", plan.desired, plan, orders)

DoPopulate(zname, fail) ==
    Finish(populate(Start(fail), zname), "populate", zname, NoPlan, <<>>)

\* a listing on its own; probe holds what it returned
DoList(s, op, zname) ==
    /\ Finish(s, op, zname, NoPlan, <<>>)
    /\ probe' = s.ret

-----------------------------------------------------------------------------
(* SpecEngine: one reconciliation of every supported type.  The service    *)
(* starts with any short list of records of the scene's name and type,     *)
(* between a record of another name and one of another type; the provider  *)
(* applies any single change to it, and then an Update a second time, in   *)
(* the same process (so under the same dict order).                        *)

\* ALIAS lives at the zone root, the other types below it; A at both
Scenes == {<<t, Sub>> : t \in SUPPORTS \ {"ALIAS"}} \cup {<<"ALIAS", Root>>, <<"A", Root>>}

EngineTTLs == {60, 300}

OtherName(name) == IF name = Root THEN Sub ELSE Root
OtherType(t) == IF WireType(t) = "TXT" THEN "A" ELSE "TXT"

\* the wire record the service holds for value position i of the scene
LiveRecord(name, t, ttl, i, rid) ==
    Stored(gen_contents(Rec(ZoneName, name, t, ttl, {i}))[1], 1, rid)

EngineRecords(sc, ttl, live) ==
    << LiveRecord(OtherName(sc[2]), sc[1], ttl, 1, 2) >>
        \o [k \in 1..Len(live) |-> LiveRecord(sc[2], sc[1], ttl, live[k], k + 2)]
        \o << LiveRecord(sc[2], OtherType(sc[1]), ttl, 1, Len(live) + 3) >>

EngineRemote(sc, ttl, live) ==
    [zones |-> << [name |-> DropLast(ZoneName), id |-> 1] >>,
     records |-> EngineRecords(sc, ttl, live),
     nextId |-> Len(live) + 4,
     per_page |-> PerPage]

EngineInputs ==
    [sc \in Scenes |->
        UNION {{[plan |-> [desired |-> ZoneName, changes |-> <<c>>], orders |-> <<o>>] :
                    o \in OrdersOf(c)} :
                c \in Planned(ChangesOver(
                        RecordsAt(ZoneName, sc[2], sc[1], EngineTTLs, Positions)))}]

\* lists of up to MaxLive distinct value positions
LiveLists ==
    UNION {{l \in [1..n -> Positions] : \A i, j \in 1..n : l[i] = l[j] => i = j} :
              n \in 0..MaxLive}

InitEngine ==
    /\ zones = <<>>
    /\ zone_records = <<>>
    /\ \E sc \in Scenes, live \in LiveLists :
            /\ remote = EngineRemote(sc, MIN_TTL, live)
            /\ hist = [scene |-> sc, ops |-> 0, keep |-> TRUE, aged |-> {}, agedDone |-> {}]
    /\ lastOp = InitOp
    /\ probe = <<>>

EngineApply ==
    /\ hist.ops = 0
    /\ \E in \in EngineInputs[hist.scene] : DoApply(in.plan, in.orders, NoFail)
    /\ UNCHANGED probe

EngineReapply ==
    /\ hist.ops = 1
    /\ lastOp.op = "apply"
    /\ lastOp.plan.changes[1].kind = "Update"
    /\ DoApply(lastOp.plan, lastOp.orders, NoFail)
    /\ UNCHANGED probe

EnginePopulate ==
    /\ hist.ops = 0
    /\ lastOp.op = "init"
    /\ DoPopulate(ZoneName, NoFail)
    /\ UNCHANGED probe

NextEngine == EngineApply \/ EngineReapply \/ EnginePopulate

SpecEngine == InitEngine /\ [][NextEngine]_vars

-----------------------------------------------------------------------------
(* SpecDiff: one Update of the A records at Sub, whose existing record is   *)
(* what the service holds: up to MaxLive of four values, in any order.      *)

DiffScene == <<"A", Sub>>

DiffLists ==
    UNION {{l \in [1..n -> WidePositions] : \A i, j \in 1..n : l[i] = l[j] => i = j} :
              n \in 1..MaxLive}

\* a TTL that clamps to the live one
DiffTTL == CHOOSE ttl \in EngineTTLs : ttl < MIN_TTL

\* the Updates of the record with the values at S, for every S
DiffInputs ==
    [S \in (SUBSET WidePositions) \ {{}} |->
        LET existing == Rec(ZoneName, Sub, "A", DiffTTL, S)
            changes == {[kind |-> "Update", existing |-> existing, new |-> n] :
                           n \in RecordsAt(ZoneName, Sub, "A", {DiffTTL}, WidePositions)}
        IN  UNION {{[plan |-> [desired |-> ZoneName, changes |-> <<c>>], orders |-> <<o>>] :
                        o \in OrdersOf(c)} :
                    c \in Planned(changes)}]

InitDiff ==
    /\ zones = <<>>
    /\ zone_records = <<>>
    /\ \E live \in DiffLists : remote = EngineRemote(DiffScene, MIN_TTL, live)
    /\ hist = [scene |-> DiffScene, ops |-> 0, keep |-> TRUE, aged |-> {}, agedDone |-> {}]
    /\ lastOp = InitOp
    /\ probe = <<>>

\* the records of the scene the service holds, as value positions
LivePositions ==
    {i \in WidePositions :
        \E k \in 1..Len(remote.records) :
            remote.records[k] = LiveRecord(Sub, "A", MIN_TTL, i, remote.records[k].id)}

DiffApply ==
    /\ hist.ops = 0
    /\ \E in \in DiffInputs[LivePositions] : DoApply(in.plan, in.orders, NoFail)
    /\ UNCHANGED probe

NextDiff == DiffApply

SpecDiff == InitDiff /\ [][NextDiff]_vars

-----------------------------------------------------------------------------
(* SpecPage: the two listings against a service that holds any number of   *)
(* zones and of records of the zone "z.", and serves them in pages of any  *)
(* size.                                                                    *)

\* the name of the i-th zone: "z", "zz", ...
ZoneNamed(i) == [k \in 1..i |-> "z"]

PageRemote(nz, nr, per_page) ==
    [zones |-> [i \in 1..nz |-> [name |-> ZoneNamed(i), id |-> i]],
     records |-> [k \in 1..nr |-> LiveRecord(Sub, "A", MIN_TTL, 1, nz + k)],
     nextId |-> nz + nr + 1,
     per_page |-> per_page]

InitPage ==
    /\ zones = <<>>
    /\ zone_records = <<>>
    /\ \E nz \in 1..MaxItems, nr \in 0..MaxItems, per_page \in 1..MaxPerPage :
            remote = PageRemote(nz, nr, per_page)
    /\ hist = [scene |-> <<"A", Sub>>, ops |-> 0, keep |-> FALSE, aged |-> {}, agedDone |-> {}]
    /\ lastOp = InitOp
    /\ probe = <<>>

\* self.zones; probe holds the mapping returned
ListZones ==
    /\ hist.ops < MaxOps
    /\ DoList(zones_property(Start(NoFail)), "zones", <<>>)

\* self.zone_records(zone); probe holds the list returned
ListRecords ==
    /\ hist.ops < MaxOps
    /\ DoList(zone_records_of(Start(NoFail), ZoneName), "zone_records", ZoneName)

NextPage == ListZones \/ ListRecords

SpecPage == InitPage /\ [][NextPage]_vars

-----------------------------------------------------------------------------
(* SpecFilter: _include_change on any change of an A or NS record at the   *)
(* root or below it, with either answer of the base class's filter.  probe *)
(* holds the change and then the answer.                                   *)

FilterTTLs == {60, 90, 120, 300}

FilterTypes == {"A", "NS"}

FilterPositions == 1..LifeValues

\* the changes a planner can hand the filter: an Update is of records that differ
FilterChanges ==
    UNION {{c \in ChangesOver(RecordsAt(ZoneName, name, t, FilterTTLs, FilterPositions)) :
                c.kind = "Update" => c.existing # c.new} :
           name \in Names, t \in FilterTypes}

InitFilter ==
    /\ zones = <<>>
    /\ zone_records = <<>>
    /\ remote = EngineRemote(<<"A", Sub>>, MIN_TTL, <<>>)
    /\ hist = [scene |-> <<"A", Sub>>, ops |-> 0, keep |-> FALSE, aged |-> {}, agedDone |-> {}]
    /\ lastOp = InitOp
    /\ \E c \in FilterChanges, base \in BOOLEAN :
            probe = [change |-> c, base |-> base, asked |-> FALSE, included |-> FALSE]

Include ==
    /\ ~probe.asked
    /\ probe' = [probe EXCEPT !.asked = TRUE, !.included = include_change(probe.change, probe.base)]
    /\ UNCHANGED <<zones, zone_records, remote, lastOp, hist>>

NextFilter == Include

SpecFilter == InitFilter /\ [][NextFilter]_vars

-----------------------------------------------------------------------------
(* SpecCodec: a canonical record of any type, at the root or below it, is  *)
(* encoded; the fragments are decoded as they are, or as the wire records  *)
(* the service stores for them.  probe holds the record and what became of *)
(* it.                                                                      *)

CodecRecords ==
    UNION {RecordsAt(ZoneName, name, t, EngineTTLs, Positions) :
              name \in Names, t \in SUPPORTS}

InitCodec ==
    /\ zones = <<>>
    /\ zone_records = <<>>
    /\ remote = EngineRemote(<<"A", Sub>>, MIN_TTL, <<>>)
    /\ hist = [scene |-> <<"A", Sub>>, ops |-> 0, keep |-> FALSE, aged |-> {}, agedDone |-> {}]
    /\ lastOp = InitOp
    /\ \E r \in CodecRecords :
            probe = [record |-> r, stage |-> "canonical", via |-> "canonical",
                     wire |-> <<>>, data |-> <<>>]

\* list(self._gen_contents(record))
Encode ==
    /\ probe.stage = "canonical"
    /\ probe' = [probe EXCEPT !.stage = "encoded", !.wire = gen_contents(probe.record)]
    /\ UNCHANGED <<zones, zone_records, remote, lastOp, hist>>

\* the service takes the fragments and lists them as its records
Store ==
    /\ probe.stage = "encoded"
    /\ probe' = [probe EXCEPT !.stage = "stored",
                              !.wire = [i \in 1..Len(@) |-> Stored(@[i], 1, i)]]
    /\ UNCHANGED <<zones, zone_records, remote, lastOp, hist>>

\* what populate decodes of the records of one name and type
Decode ==
    /\ probe.stage \in {"encoded", "stored"}
    /\ LET name == hostname_from_fqdn(probe.record.zone, probe.wire[1].name)
           t == DecodedType(name, probe.wire[1].type)
       IN  probe' = [probe EXCEPT !.stage = "decoded", !.via = probe.stage,
                                  !.data = data_for(t, probe.wire)]
    /\ UNCHANGED <<zones, zone_records, remote, lastOp, hist>>

NextCodec == Encode \/ Store \/ Decode

SpecCodec == InitCodec /\ [][NextCodec]_vars

-----------------------------------------------------------------------------
(* Spec: the life of one provider instance.  The service holds the zone    *)
(* "z." with a few A records; "y." is unknown to it.  Reads (populate) and *)
(* applies follow one another in any order; any one wire call of an        *)
(* operation may be answered with an error status.                         *)

LifeType == "A"
LifeTTL == CHOOSE ttl \in EngineTTLs : ttl > MIN_TTL
LifePositions == 1..LifeValues

\* the answers injected for a wire call: 403, a 5xx, and a 3xx whose body is
\* json or empty
FailKinds ==
    {[status |-> 403, json |-> TRUE], [status |-> 500, json |-> TRUE],
     [status |-> 304, json |-> TRUE], [status |-> 304, json |-> FALSE]}

\* most wire calls one operation of the lifecycle makes
MaxCalls == 2 * LifeValues + 4

Fails == {NoFail} \cup {[at |-> n, status |-> k.status, json |-> k.json] :
                            n \in 1..MaxCalls, k \in FailKinds}

LifeZones == {ZoneName, NewZoneName}

\* a change of the records at Sub; a creation may be followed by the creation
\* of a record at the root; against the unknown zone the plans only create
LifePlans ==
    [zn \in LifeZones |->
        LET subs == Planned(ChangesOver(
                        RecordsAt(zn, Sub, LifeType, {LifeTTL}, LifePositions)))
            firsts == IF zn = ZoneName THEN subs ELSE {c \in subs : c.kind = "Create"}
            root == [kind |-> "Create", new |-> Rec(zn, Root, LifeType, LifeTTL, {1})]
            pairs == {<<c, o>> : c \in firsts, o \in UNION {OrdersOf(d) : d \in firsts}}
        IN  {[plan |-> [desired |-> zn, changes |-> <<p[1]>>], orders |-> <<p[2]>>] :
                p \in {q \in pairs : q[2] \in OrdersOf(q[1])}}
            \cup {[plan |-> [desired |-> zn, changes |-> <<c, root>>],
                   orders |-> <<IdOrder, IdOrder>>] :
                      c \in {d \in firsts : d.kind = "Create"}}]

LifeLists ==
    {l \in LiveLists : \A i \in 1..Len(l) : l[i] \in LifePositions}

LifeRemote(live) ==
    [zones |-> << [name |-> DropLast(ZoneName), id |-> 1] >>,
     records |-> [k \in 1..Len(live) |-> LiveRecord(Sub, LifeType, LifeTTL, live[k], k + 1)],
     nextId |-> Len(live) + 2,
     per_page |-> PerPage]

Init ==
    /\ zones = <<>>
    /\ zone_records = <<>>
    /\ \E live \in LifeLists : remote = LifeRemote(live)
    /\ hist = [scene |-> <<LifeType, Sub>>, ops |-> 0, keep |-> FALSE,
               aged |-> {}, agedDone |-> {}]
    /\ lastOp = InitOp
    /\ probe = <<>>

Populate ==
    /\ hist.ops < MaxOps
    /\ \E zn \in LifeZones, f \in Fails : DoPopulate(zn, f)
    /\ UNCHANGED probe

Apply ==
    /\ hist.ops < MaxOps
    /\ \E zn \in LifeZones :
         \E in \in LifePlans[zn], f \in Fails :
            /\ DoApply(in.plan, in.orders, f)
            /\ Len(remote'.records) <= MaxRecords
    /\ UNCHANGED probe

Next == Populate \/ Apply

Spec == Init /\ [][Next]_vars


-----------------------------------------------------------------------------
(* SpecPlan: one apply of a plan of one or two changes, each of another     *)
(* name and type, to the zone the service has or to the one it has not, by *)
(* a provider that is fresh or has read a zone before; any one of the first *)
(* wire calls may be answered with an error status.                         *)

\* the name and wire type a change is about
Target(c) ==
    <<DropLast(Fqdn(ChangeRecord(c).zone, ChangeRecord(c).name)),
      WireType(ChangeRecord(c).type)>>

\* the changes of the records at Sub, of the record at the root and of the
\* record of the other type
PlanChanges(zn) ==
    Planned(ChangesOver(RecordsAt(zn, Sub, LifeType, {LifeTTL}, LifePositions)))
        \cup Planned(ChangesOver(RecordsAt(zn, Root, LifeType, {LifeTTL}, {1})))
        \cup Planned(ChangesOver(RecordsAt(zn, Sub, OtherType(LifeType), {LifeTTL}, {1})))

PlanInputs ==
    [zn \in LifeZones |->
        {[plan |-> [desired |-> zn, changes |-> <<c>>], orders |-> <<IdOrder>>] :
            c \in PlanChanges(zn)}
        \cup {[plan |-> [desired |-> zn, changes |-> <<p[1], p[2]>>],
               orders |-> <<IdOrder, IdOrder>>] :
                  p \in {q \in PlanChanges(zn) \X PlanChanges(zn) :
                            Target(q[1]) # Target(q[2])}}]

\* the wire calls of an apply that may get the injected answer
PlanFailAt == 3

PlanFails == {f \in Fails : f.at <= PlanFailAt}

InitPlan ==
    /\ zones = <<>>
    /\ zone_records = <<>>
    /\ \E live \in LifeLists : remote = EngineRemote(<<LifeType, Sub>>, LifeTTL, live)
    /\ hist = [scene |-> <<LifeType, Sub>>, ops |-> 0, keep |-> FALSE,
               aged |-> {}, agedDone |-> {}]
    /\ lastOp = InitOp
    /\ probe = <<>>

PlanPopulate ==
    /\ hist.ops = 0
    /\ \E zn \in LifeZones : DoPopulate(zn, NoFail)
    /\ UNCHANGED probe

PlanApply ==
    /\ lastOp.op # "apply"
    /\ \E zn \in LifeZones :
         \E in \in PlanInputs[zn], f \in PlanFails : DoApply(in.plan, in.orders, f)
    /\ UNCHANGED probe

NextPlan == PlanPopulate \/ PlanApply

SpecPlan == InitPlan /\ [][NextPlan]_vars

-----------------------------------------------------------------------------
(* SpecRecover: an Update of the A records at Sub (existing is what the     *)
(* service holds) during which any one wire call is answered with an error *)
(* status; when the apply raised, the same provider reads the zone again   *)
(* and then applies the plan once more, every call answered as the service *)
(* sees it.  probe keeps the plan for the second run.                      *)

InitRecover ==
    /\ zones = <<>>
    /\ zone_records = <<>>
    /\ \E live \in DiffLists : remote = EngineRemote(DiffScene, MIN_TTL, live)
    /\ hist = [scene |-> DiffScene, ops |-> 0, keep |-> TRUE, aged |-> {}, agedDone |-> {}]
    /\ lastOp = InitOp
    /\ probe = <<>>

RecoverApply ==
    /\ hist.ops = 0
    /\ \E in \in DiffInputs[LivePositions], f \in Fails : DoApply(in.plan, in.orders, f)
    /\ UNCHANGED probe

RecoverRead ==
    /\ hist.ops = 1
    /\ lastOp.raised # "none"
    /\ DoPopulate(ZoneName, NoFail)
    /\ probe' = [plan |-> lastOp.plan, orders |-> lastOp.orders]

RecoverRerun ==
    /\ hist.ops = 2
    /\ DoApply(probe.plan, probe.orders, NoFail)
    /\ UNCHANGED probe

NextRecover == RecoverApply \/ RecoverRead \/ RecoverRerun

SpecRecover == InitRecover /\ [][NextRecover]_vars

-----------------------------------------------------------------------------
(* ACMEChallengeCNAMESource (src/octodns/source/acme_challenge_cnames.py).  *)
(* A zone snapshot is the set of its records, each a name, a type, a TTL    *)
(* and a value; the zone keeps one record of a name and type.  The literal  *)
(* "_acme-challenge" is one element of the names and values it is part of.  *)

DEFAULT_TTL == 3600

Challenge == "_acme-challenge"

\* __init__: the target zone gets a trailing dot when it has none
target_zone_of(tz) == IF tz[Len(tz)] = "." THEN tz ELSE WithDot(tz)

\* a variant of eligible_records that takes wildcard names too
eligible_records_wild(zone) == {r \in zone : r.type \in {"A", "AAAA", "CNAME"}}

\* all A, AAAA and CNAME records except for wildcards
eligible_records(zone) ==
    {r \in zone : "*" \notin Range(r.name) /\ r.type \in {"A", "AAAA", "CNAME"}}

challenge_name(record) ==
    IF record.name = <<>> THEN <<Challenge>> ELSE <<Challenge, ".">> \o record.name

\* the record populate makes for an eligible record
acme_cname(zname, record, target_zone, ttl) ==
    [name  |-> challenge_name(record),
     type  |-> "CNAME",
     ttl   |-> ttl,
     value |-> <<Challenge, ".">> \o Fqdn(zname, record.name) \o target_zone]

\* zone.add_record(record, replace=True): the record takes the place of the
\* one the zone has of its name and type
add_record(zone, record) ==
    {r \in zone : ~(r.name = record.name /\ r.type = record.type)} \cup {record}

\* for record in eligible_records: the records are met in the order given
RECURSIVE insert_cnames(_, _, _, _, _, _)
insert_cnames(zone, zname, records, i, target_zone, ttl) ==
    IF i > Len(records) THEN zone
    ELSE insert_cnames(add_record(zone, acme_cname(zname, records[i], target_zone, ttl)),
                       zname, records, i + 1, target_zone, ttl)

\* the orders a set can be iterated in
Orderings(S) ==
    {o \in [1..Cardinality(S) -> S] :
        \A i, j \in 1..Cardinality(S) : o[i] = o[j] => i = j}

-----------------------------------------------------------------------------
(* SpecAcme: the source is given any target zone and TTL and populates any  *)
(* snapshot of up to MaxZone records of the zone "z.": addresses at the     *)
(* root, records of the eligible and of other types below it, wildcards,    *)
(* and a CNAME already at a challenge name.  probe holds the snapshot and   *)
(* then the zone after populate.                                            *)

\* most records of a snapshot
MaxZone == 3

AcmeRecord(name, t, value) == [name |-> name, type |-> t, ttl |-> LifeTTL, value |-> value]

AcmeRecords ==
    {AcmeRecord(Root, "A", <<"1">>),
     AcmeRecord(Root, "AAAA", <<":", "1">>),
     AcmeRecord(<<"w">>, "CNAME", <<"c", ".">>),
     AcmeRecord(<<"w">>, "A", <<"1">>),
     AcmeRecord(<<"x">>, "TXT", <<"t">>),
     AcmeRecord(<<"s">>, "NS", <<"n", ".">>),
     AcmeRecord(<<"*">>, "A", <<"1">>),
     AcmeRecord(<<"*", ".", "w">>, "CNAME", <<"c", ".">>),
     AcmeRecord(<<Challenge, ".", "w">>, "CNAME", <<"o", ".">>)}

Snapshots == {z \in SUBSET AcmeRecords : Cardinality(z) <= MaxZone}

AcmeTargets == {<<"t">>, <<"t", ".">>}

AcmeTTLs == {DEFAULT_TTL, MIN_TTL}

InitAcme ==
    /\ zones = <<>>
    /\ zone_records = <<>>
    /\ remote = EngineRemote(<<"A", Sub>>, MIN_TTL, <<>>)
    /\ hist = [scene |-> <<"A", Sub>>, ops |-> 0, keep |-> FALSE, aged |-> {}, agedDone |-> {}]
    /\ lastOp = InitOp
    /\ \E z \in Snapshots, tz \in AcmeTargets, ttl \in AcmeTTLs :
            probe = [zone |-> z, target_zone |-> target_zone_of(tz), ttl |-> ttl,
                     populated |-> FALSE, after |-> {}]

\* ACMEChallengeCNAMESource.populate(zone)
AcmePopulate ==
    /\ ~probe.populated
    /\ \E order \in Orderings(eligible_records(probe.zone)) :
            probe' = [probe EXCEPT !.populated = TRUE,
                                   !.after = insert_cnames(probe.zone, ZoneName, order, 1,
                                                           probe.target_zone, probe.ttl)]
    /\ UNCHANGED <<zones, zone_records, remote, lastOp, hist>>

NextAcme == AcmePopulate

SpecAcme == InitAcme /\ [][NextAcme]_vars

-----------------------------------------------------------------------------
(* Observations on an operation                                             *)

\* how many of the operation's wire calls are creates, updates, deletes
Creates(op) == Cardinality({i \in 1..Len(op.calls) : IsCreate(op.calls[i].call)})
Updates(op) == Cardinality({i \in 1..Len(op.calls) : IsUpdate(op.calls[i].call)})
Deletes(op) == Cardinality({i \in 1..Len(op.calls) : IsDelete(op.calls[i].call)})

\* a wire record without the ids the service gave it
Payload(r) == [k \in DOMAIN r \ {"id", "zone_id"} |-> r[k]]

\* the listed records that carry the name and wire type of a canonical record
LiveOf(records, rec) ==
    SelectSeq(records, LAMBDA r : r.name = DropLast(Fqdn(rec.zone, rec.name))
                                    /\ r.type = WireType(rec.type))

\* what the service holds for the fragments of a canonical record
Encoding(rec) ==
    LET cs == gen_contents(rec) IN {Payload(Stored(cs[i], 0, 0)) : i \in 1..Len(cs)}

\* the live records of rec's name and type are the encoding of rec, one per fragment
LiveIs(records, rec) ==
    LET live == LiveOf(records, rec)
    IN  /\ Len(live) = Len(gen_contents(rec))
        /\ {Payload(live[i]) : i \in 1..Len(live)} = Encoding(rec)

\* fragments in a but not in b
Minus(a, b) == Hashes(gen_contents(a)) \ Hashes(gen_contents(b))

TheChange(op) == op.plan.changes[1]

\* the operation is a completed Update of one change, run on a zone whose live
\* records were the encoding of the change's existing record
UpdateOfLive(op) ==
    /\ op.op = "apply"
    /\ op.raised = "none"
    /\ Len(op.plan.changes) = 1
    /\ TheChange(op).kind = "Update"
    /\ LiveIs(op.before, TheChange(op).existing)

\* the operation repeats the plan of the one before it
Rerun(op) == op.op = "apply" /\ op.prev.op = "apply" /\ op.prev.plan = op.plan

-----------------------------------------------------------------------------
(* Claims on the reconciliation engine (SpecEngine)                         *)

\* C1: Idempotence of Update. After an Update was applied to a zone whose live
\* records were the encoding of its existing record, applying the same change
\* again against the live state the first run left makes no create, no update
\* and no delete call.
C1_UpdateIdempotent ==
    (Rerun(lastOp) /\ lastOp.raised = "none" /\ UpdateOfLive(lastOp.prev))
        => Creates(lastOp) + Updates(lastOp) + Deletes(lastOp) = 0

\* C2: Swap preference. When an Update adds as many fragments as it removes,
\* k > 0 of them, and the live records are the encoding of existing, it makes
\* exactly k update calls, each on the id of another removed live record and
\* each carrying another added fragment, and no delete and no create call.
C2_SwapPreference ==
    LET ch == TheChange(lastOp)
        added == Minus(ch.new, ch.existing)
        removed == Minus(ch.existing, ch.new)
        puts == {i \in 1..Len(lastOp.calls) : IsUpdate(lastOp.calls[i].call)}
        gone == {r \in Range(LiveOf(lastOp.before, ch.existing)) :
                    hash_content(live_content(r, keys_of(ch), WireType(ch.new.type)))
                        \in removed}
    IN  (hist.ops = 1 /\ UpdateOfLive(lastOp)
            /\ Cardinality(added) = Cardinality(removed) /\ Cardinality(added) > 0)
        => /\ Updates(lastOp) = Cardinality(added)
           /\ Deletes(lastOp) = 0
           /\ Creates(lastOp) = 0
           /\ {lastOp.calls[i].call.id : i \in puts} = {r.id : r \in gone}
           /\ {hash_content(lastOp.calls[i].call.data) : i \in puts} = added

\* the counts of C3, for an Update of live records that are the encoding of
\* existing: n values wanted, m values live, sharing a fragment or not
AsymmetricCase(n, m, shared) ==
    LET ch == TheChange(lastOp)
    IN  /\ hist.ops = 1
        /\ UpdateOfLive(lastOp)
        /\ Len(gen_contents(ch.new)) = n
        /\ Len(gen_contents(ch.existing)) = m
        /\ shared = (Hashes(gen_contents(ch.new)) \cap Hashes(gen_contents(ch.existing)) # {})

CallCounts(op) == <<Updates(op), Creates(op), Deletes(op)>>

\* C3 as stated: 3 values wanted and 1 unrelated record live give 1 update and
\* 2 creates and no delete; 1 value wanted and 3 records live give 1 update
\* and 2 deletes and no create.
C3_AsStated ==
    /\ AsymmetricCase(3, 1, FALSE) => CallCounts(lastOp) = <<1, 2, 0>>
    /\ (AsymmetricCase(1, 3, FALSE) \/ AsymmetricCase(1, 3, TRUE))
          => CallCounts(lastOp) = <<1, 0, 2>>

\* C3 (amended): 3 values wanted and 1 unrelated record live give 1 update and
\* 2 creates and no delete; 1 value wanted and 3 records live give 1 update,
\* 2 deletes and no create when the wanted value is none of the live ones, and
\* no update, 2 deletes and no create when it is one of them.
C3_AsymmetricDiff ==
    /\ AsymmetricCase(3, 1, FALSE) => CallCounts(lastOp) = <<1, 2, 0>>
    /\ AsymmetricCase(1, 3, FALSE) => CallCounts(lastOp) = <<1, 0, 2>>
    /\ AsymmetricCase(1, 3, TRUE)  => CallCounts(lastOp) = <<0, 0, 2>>

C3_Witness ==
    AsymmetricCase(1, 3, TRUE) /\ CallCounts(lastOp) = <<0, 0, 2>>

-----------------------------------------------------------------------------
(* Claims on the life of a provider instance (Spec)                         *)

\* C4: Cache freshness after apply. After an apply for a zone name has run,
\* the record cache has no entry for that name, and no entry of the cache is
\* older than an apply to its zone.
C4_CacheFresh ==
    /\ lastOp.op = "apply" => lastOp.zone \notin DOMAIN zone_records
    /\ hist.aged = {}

\* the effects of the calls the service accepted are in its records
Persisted(op) ==
    \A i \in 1..Len(op.calls) :
        LET c == op.calls[i].call
            held == {r \in Range(remote.records) : r.id = c.id}
        IN  op.calls[i].status = 200 =>
               /\ IsDelete(c) => held = {}
               /\ IsUpdate(c) =>
                     \A r \in held : Payload(r) = Payload(Stored(c.data, 0, 0))
               /\ IsCreate(c) =>
                     \E r \in Range(remote.records) :
                         Payload(r) = Payload(Stored(c.data, 0, 0))

\* C5: Failure stops the plan. When a wire call of an apply gets a non-2xx
\* answer, the apply raises (an authentication error for 403, an HTTP error
\* otherwise), that call is the last one it makes, and what the earlier calls
\* did stays done.
C5_FailureStops ==
    (lastOp.op = "apply" /\ lastOp.fail.at > 0)
        => /\ lastOp.raised = IF lastOp.fail.status = 403
                                THEN "CloudflareAuthenticationError" ELSE "HTTPError"
           /\ Len(lastOp.calls) = lastOp.fail.at
           /\ Persisted(lastOp)

-----------------------------------------------------------------------------
(* Claims on the listings (SpecPage)                                        *)

\* the page numbers the operation asked of a listing, in the order asked
PagesAsked(op, what) ==
    LET gets == SelectSeq(op.calls, LAMBDA c : c.call.what = what)
    IN  [k \in 1..Len(gets) |-> gets[k].call.page]

\* the operation listed, uncached, the N items of a listing served in pages of
\* P < N, and asked for the pages 1..k in this order
Paged(N, k, what) ==
    N > remote.per_page => PagesAsked(lastOp, what) = [i \in 1..k |-> i]

\* the uncached listings return every item once
ListedAll ==
    /\ (lastOp.op = "zones" /\ ~lastOp.listed) => probe = ZoneMap(remote.zones)
    /\ (lastOp.op = "zone_records" /\ ~lastOp.cached) => probe = remote.records

Ceil(N, P) == (N + P - 1) \div P

FullPages(N, P) == (N \div P) + 1

\* the uncached listings ask for FullPages(N, P) pages (full), or Ceil(N, P)
PageCount(full) ==
    LET pages(N) == IF full THEN FullPages(N, remote.per_page)
                    ELSE Ceil(N, remote.per_page)
    IN  /\ (~lastOp.listed /\ lastOp.op \in {"zones", "zone_records"})
              => Paged(Len(remote.zones), pages(Len(remote.zones)), "zones")
        /\ (lastOp.op = "zone_records" /\ ~lastOp.cached)
              => Paged(Len(remote.records), pages(Len(remote.records)), "dns_records")

\* C6 as stated: an uncached listing of N items in pages of P < N asks for the
\* pages 1..ceil(N/P), each once and in order, and returns the N items, none
\* twice and none missing.
C6_AsStated == PageCount(FALSE) /\ ListedAll

\* C6 (amended): an uncached listing of N items in pages of P < N asks for the
\* pages 1..floor(N/P)+1, each once and in order (one page more than
\* ceil(N/P) when P divides N: the page after a last full page, which comes
\* back empty), and returns the N items, none twice and none missing.
C6_PageCount == PageCount(TRUE) /\ ListedAll

\* a listing of records whose last page is full
C6_Witness ==
    /\ lastOp.op = "zone_records" /\ ~lastOp.cached
    /\ Len(remote.records) = 2 * remote.per_page
    /\ PagesAsked(lastOp, "dns_records") = <<1, 2, 3>>
    /\ probe = remote.records

-----------------------------------------------------------------------------
(* Claims on the change filter (SpecFilter)                                 *)

\* the change is of a root NS record
RootNS(c) == ChangeRecord(c).type = "NS" /\ ChangeRecord(c).name = Root

\* the change is an Update whose records have the same values
SameValues(c) == c.kind = "Update" /\ c.new.values = c.existing.values

\* C7: TTL floor filter. An Update that changes only the TTL, to a value below
\* the minimum of 120, is excluded when the existing TTL is exactly 120 and is
\* not excluded by this filter when it is any other value; an Update whose
\* values differ is never excluded for its TTLs.  (Not excluded: the answer is
\* the base class's.  Root NS changes, which another rule excludes, aside.)
C7_TTLFloor ==
    LET c == probe.change
    IN  (probe.asked /\ c.kind = "Update")
        => /\ (SameValues(c) /\ c.new.ttl < 120 /\ c.existing.ttl = 120)
                 => ~probe.included
           /\ (SameValues(c) /\ c.new.ttl < 120 /\ c.existing.ttl # 120 /\ ~RootNS(c))
                 => probe.included = probe.base
           /\ (~SameValues(c) /\ ~RootNS(c)) => probe.included = probe.base

\* a TTL of 60 wanted where 120 is live: excluded whatever the base class says
C7_Witness ==
    /\ probe.asked /\ SameValues(probe.change) /\ ~RootNS(probe.change) /\ probe.base
    /\ probe.change.new.ttl = 60 /\ probe.change.existing.ttl = 120
    /\ ~probe.included

\* the change is an Update to the TTL the existing record has once clamped
ClampedNoop(c) ==
    SameValues(c) /\ Max(MIN_TTL, c.new.ttl) = c.existing.ttl

\* C8: Root NS exclusion. A change of an NS record at the empty name is
\* excluded whatever its kind, content and TTL; an NS change at another name
\* and a change of another type at the empty name are excluded only by the
\* TTL rule or by the base class.
C8_RootNS ==
    LET c == probe.change
    IN  probe.asked
        => /\ RootNS(c) => ~probe.included
           /\ ~RootNS(c) => (probe.included <=> (probe.base /\ ~ClampedNoop(c)))

\* a root NS Update that changes the values: excluded
C8_Witness ==
    /\ probe.asked /\ RootNS(probe.change) /\ probe.change.kind = "Update"
    /\ ~SameValues(probe.change) /\ probe.base
    /\ ~probe.included

-----------------------------------------------------------------------------
(* Claims on the codec (SpecCodec) and on ALIAS (SpecEngine)                *)

\* the value set of a record or of decoded data
ValuesOf(d) == IF InDomain(d, "value") THEN {d.value} ELSE Range(d.values)

\* the record was encoded and decoded, through the service's records or not
RoundTrip(via) == probe.stage = "decoded" /\ probe.via = via

\* decoding gave the clamped TTL of the record
SameTTL == probe.data.ttl = Max(MIN_TTL, probe.record.ttl)

\* C9 as stated: for every supported type and canonical record, decoding the
\* fragments that encoding the record produces gives the record's type and
\* value set, and its TTL clamped to the minimum.
C9_AsStated ==
    RoundTrip("encoded")
        => /\ probe.data.type = probe.record.type
           /\ ValuesOf(probe.data) = ValuesOf(probe.record)
           /\ SameTTL

\* a value of a type whose decoder appends a dot, decoded from what was encoded
Dotted(t, v) ==
    IF t = "MX" THEN [v EXCEPT !.exchange = WithDot(@)] ELSE WithDot(v)

\* C9 (amended): decoding the fragments that encoding produces gives the
\* record's value set for A, AAAA, CAA, SPF and TXT, and every value with one
\* more trailing dot for CNAME, ALIAS, MX and NS; for these the record's value
\* set comes back from the wire records the service stores for the fragments
\* (content without the trailing dot).  The type comes back except for a CNAME
\* at the root (decoded as ALIAS) and an ALIAS below the root (decoded as
\* CNAME), and the TTL comes back clamped to the minimum.
C9_RoundTrip ==
    LET r == probe.record
        dotted == WireType(r.type) \in DotTypes
    IN  probe.stage = "decoded"
        => /\ SameTTL
           /\ probe.data.type =
                 IF WireType(r.type) # "CNAME" THEN r.type
                 ELSE IF r.name = Root THEN "ALIAS" ELSE "CNAME"
           /\ (RoundTrip("stored") \/ ~dotted) => ValuesOf(probe.data) = ValuesOf(r)
           /\ (RoundTrip("encoded") /\ dotted)
                 => ValuesOf(probe.data) = {Dotted(r.type, v) : v \in ValuesOf(r)}

\* a TXT record with an escaped semicolon came back from the service's records
C9_Witness ==
    /\ RoundTrip("stored")
    /\ probe.record.type = "TXT"
    /\ \E v \in ValuesOf(probe.record) : \E i \in 1..Len(v) : v[i] = ";"
    /\ ValuesOf(probe.data) = ValuesOf(probe.record)
    /\ probe.data.type = "TXT"

\* the entries populate returned for the wire records of one name and type
EntriesOf(op, r) ==
    {e \in op.ret : e.name = hostname_from_fqdn(op.zone, r.name)
                      /\ WireType(e.data.type) = r.type}

\* C10: ALIAS/CNAME substitution. populate decodes a live CNAME record as an
\* ALIAS exactly when its relative name is empty, and as a CNAME at any other
\* name; the fragments of an ALIAS record have wire type CNAME, and no create
\* or update payload has type ALIAS.
C10_AliasSubstitution ==
    /\ (lastOp.op = "populate" /\ lastOp.raised = "none")
          => /\ \A k \in 1..Len(lastOp.before) :
                   LET r == lastOp.before[k]
                   IN  r.type = "CNAME"
                       => /\ EntriesOf(lastOp, r) # {}
                          /\ \A e \in EntriesOf(lastOp, r) :
                                e.data.type = "ALIAS" <=> hostname_from_fqdn(lastOp.zone, r.name) = Root
             /\ \A e \in lastOp.ret : e.data.type = "ALIAS" => e.name = Root
    /\ \A i \in 1..Len(lastOp.calls) :
          LET c == lastOp.calls[i].call
          IN  (IsCreate(c) \/ IsUpdate(c))
                 => /\ c.data.type # "ALIAS"
                    /\ TheChange(lastOp).kind # "Delete"
                          /\ TheChange(lastOp).new.type = "ALIAS" => c.data.type = "CNAME"

\* populate met a CNAME at the root and one below it
C10_Witness ==
    /\ lastOp.op = "populate" /\ lastOp.raised = "none"
    /\ \E e \in lastOp.ret : e.data.type = "ALIAS" /\ e.name = Root
    /\ \E e \in lastOp.ret : e.data.type = "CNAME" /\ e.name = Sub

-----------------------------------------------------------------------------
(* Claims on the zone provisioner (SpecPlan)                                *)

\* the positions of the operation's wire calls that satisfy a test
CreateZoneCalls(op) == {i \in 1..Len(op.calls) : IsCreateZone(op.calls[i].call)}
RecordCalls(op) == {i \in 1..Len(op.calls) : op.calls[i].call.what = "dns_records"}
RecordMutations(op) ==
    {i \in RecordCalls(op) : IsMutation(op.calls[i].call)}

\* the apply got an answer to its question whether the zone name has an id:
\* the zone list was there, or every page it asked for was served
ZoneResolved(op) ==
    \/ op.listed
    \/ /\ \E i \in 1..Len(op.calls) : op.calls[i].call.what = "zones"
       /\ \A i \in 1..Len(op.calls) :
             (IsList(op.calls[i].call) /\ op.calls[i].call.what = "zones")
                => op.calls[i].status = 200

\* the name and type of the wire record a record call is about
CallTarget(op, c) ==
    IF IsDelete(c)
    THEN LET hit == {k \in 1..Len(op.before) : op.before[k].id = c.id}
         IN  IF hit = {} THEN <<>>
             ELSE <<op.before[CHOOSE k \in hit : TRUE].name,
                    op.before[CHOOSE k \in hit : TRUE].type>>
    ELSE <<c.data.name, c.data.type>>

\* the positions in the plan of the changes a record call can belong to
ChangesOf(op, c) ==
    {k \in 1..Len(op.plan.changes) : Target(op.plan.changes[k]) = CallTarget(op, c)}

\* C11: Zone provisioning and change order. An apply to a zone name that has
\* no id issues exactly one create-zone call, before every record call of the
\* plan; the id the service returns is recorded for the name and is the zone
\* id of the record calls that follow. An apply to a zone name that has an id
\* issues no create-zone call. Every wire call of a change of the plan comes
\* before every wire call of the change after it.
C11_ProvisionOrder ==
    lastOp.op = "apply"
    => /\ (ZoneResolved(lastOp) /\ lastOp.hosted = 0)
             => /\ Cardinality(CreateZoneCalls(lastOp)) = 1
                /\ \A i \in CreateZoneCalls(lastOp) :
                      /\ \A j \in RecordCalls(lastOp) : i < j
                      /\ lastOp.calls[i].status = 200
                            => /\ Known(lastOp.zone)
                               /\ zones[1][lastOp.zone] = HostedId(remote, lastOp.zone)
                               /\ zones[1][lastOp.zone] # 0
                               /\ \A j \in RecordCalls(lastOp) :
                                     lastOp.calls[j].call.zone_id = zones[1][lastOp.zone]
       /\ lastOp.hosted # 0 => CreateZoneCalls(lastOp) = {}
       /\ \A i, j \in RecordMutations(lastOp) :
             /\ ChangesOf(lastOp, lastOp.calls[i].call) # {}
             /\ i < j => \A a \in ChangesOf(lastOp, lastOp.calls[i].call),
                            b \in ChangesOf(lastOp, lastOp.calls[j].call) : a <= b

\* a zone was created and then two changes made their calls in the zone, and
\* an apply of two changes to the zone the service had made calls for both
C11_Witness ==
    /\ lastOp.op = "apply" /\ lastOp.raised = "none" /\ lastOp.hosted = 0
    /\ Cardinality(CreateZoneCalls(lastOp)) = 1
    /\ \E i, j \in RecordMutations(lastOp) :
          /\ i < j
          /\ ChangesOf(lastOp, lastOp.calls[i].call) = {1}
          /\ ChangesOf(lastOp, lastOp.calls[j].call) = {2}
          /\ lastOp.calls[i].call.zone_id = HostedId(remote, lastOp.zone)

-----------------------------------------------------------------------------
(* Claims on Delete and Create (SpecEngine)                                 *)

\* the operation is the first apply of the provider, of one change of a kind
FirstApply(kind) ==
    hist.ops = 1 /\ lastOp.op = "apply" /\ TheChange(lastOp).kind = kind

\* the records listed before the operation that carry the fully-qualified
\* name (without the dot) and the type of a canonical record
ListedAs(op, rec) ==
    {k \in 1..Len(op.before) :
        /\ op.before[k].name = DropLast(Fqdn(rec.zone, rec.name))
        /\ op.before[k].type = rec.type}

\* the wire calls of the operation that delete, or change, the record of an id
DeletesOf(op, rid) ==
    {i \in 1..Len(op.calls) : IsDelete(op.calls[i].call) /\ op.calls[i].call.id = rid}
MutationsOf(op, rid) ==
    {i \in 1..Len(op.calls) :
        (IsDelete(op.calls[i].call) \/ IsUpdate(op.calls[i].call))
            /\ op.calls[i].call.id = rid}

\* C12: Delete handling. A Delete issues exactly one delete-by-id call for
\* each listed wire record whose name (fully qualified, without the trailing
\* dot) and type are those of the record being deleted, no call on any other
\* wire record, and no create or update call.
C12_DeleteCalls ==
    FirstApply("Delete")
    => /\ \A k \in 1..Len(lastOp.before) :
             IF k \in ListedAs(lastOp, TheChange(lastOp).existing)
             THEN /\ Cardinality(DeletesOf(lastOp, lastOp.before[k].id)) = 1
                  /\ MutationsOf(lastOp, lastOp.before[k].id)
                        = DeletesOf(lastOp, lastOp.before[k].id)
             ELSE MutationsOf(lastOp, lastOp.before[k].id) = {}
       /\ Deletes(lastOp) = Cardinality(ListedAs(lastOp, TheChange(lastOp).existing))
       /\ Creates(lastOp) = 0
       /\ Updates(lastOp) = 0

\* a Delete that met three records of its name and type among the five listed
C12_Witness ==
    /\ FirstApply("Delete")
    /\ Cardinality(ListedAs(lastOp, TheChange(lastOp).existing)) = 3
    /\ Deletes(lastOp) = 3
    /\ Len(remote.records) = 2

\* the number of values of a canonical record
NumValues(rec) == IF SingleValued(rec.type) THEN 1 ELSE Len(rec.values)

\* the payloads of the operation's create and update calls
Payloads(op) ==
    {op.calls[i].call.data :
        i \in {j \in 1..Len(op.calls) :
                  IsCreate(op.calls[j].call) \/ IsUpdate(op.calls[j].call)}}

\* C13: Create handling and payload invariant. A Create issues exactly one
\* create call per value of the new record (one for CNAME and ALIAS) and no
\* update or delete call; the payload of every create and update call of
\* every apply carries the record's fully-qualified name without its trailing
\* dot and a TTL of max(120, record TTL), never below the provider minimum.
C13_CreatePayload ==
    /\ FirstApply("Create")
          => /\ Creates(lastOp) = NumValues(TheChange(lastOp).new)
             /\ Updates(lastOp) = 0
             /\ Deletes(lastOp) = 0
    /\ lastOp.op = "apply"
          => \A d \in Payloads(lastOp) :
                /\ WithDot(d.name) = Fqdn(lastOp.zone, ChangeRecord(TheChange(lastOp)).name)
                /\ d.name[Len(d.name)] # "."
                /\ d.ttl = Max(120, ChangeRecord(TheChange(lastOp)).ttl)
                /\ d.ttl >= MIN_TTL

\* a Create of a record of three values and a TTL below the minimum
C13_Witness ==
    /\ FirstApply("Create")
    /\ NumValues(TheChange(lastOp).new) = 3
    /\ TheChange(lastOp).new.ttl < MIN_TTL
    /\ Creates(lastOp) = 3
    /\ \A d \in Payloads(lastOp) : d.ttl = MIN_TTL

-----------------------------------------------------------------------------
(* Claims on the challenge-CNAME source (SpecAcme)                          *)

\* the records the claim calls eligible: A, AAAA or CNAME, no wildcard in the name
Eligible(r) == r.type \in {"A", "AAAA", "CNAME"} /\ \A i \in 1..Len(r.name) : r.name[i] # "*"

\* the CNAME the claim names for an eligible record of the zone "z."
ChallengeFor(r) ==
    [name  |-> IF r.name = <<>> THEN <<Challenge>> ELSE <<Challenge, ".">> \o r.name,
     type  |-> "CNAME",
     ttl   |-> probe.ttl,
     value |-> <<Challenge, ".">>
                 \o (IF r.name = <<>> THEN ZoneName ELSE r.name \o <<".">> \o ZoneName)
                 \o probe.target_zone]

ChallengesOf(zone) == {ChallengeFor(r) : r \in {q \in zone : Eligible(q)}}

\* the records of a zone that a new CNAME takes the place of
Replaced(zone) ==
    {r \in zone : \E c \in ChallengesOf(zone) : c.name = r.name /\ c.type = r.type /\ c # r}

\* one record of a name and type
OnePerNameType(zone) ==
    \A r, q \in zone : (r.name = q.name /\ r.type = q.type) => r = q

-----------------------------------------------------------------------------
(* Claims on the calls of one Update (SpecEngine)                           *)

\* the operation is an apply of one Update
AnUpdate(op) == op.op = "apply" /\ TheChange(op).kind = "Update"

\* the payloads of the operation's update calls, and of its create calls, in
\* the order of the calls
PutPayloads(op) ==
    LET puts == SelectSeq(op.calls, LAMBDA c : IsUpdate(c.call))
    IN  [k \in 1..Len(puts) |-> puts[k].call.data]
PostPayloads(op) ==
    LET posts == SelectSeq(op.calls, LAMBDA c : IsCreate(c.call))
    IN  [k \in 1..Len(posts) |-> posts[k].call.data]

\* the update calls among the first n calls of the operation
PutsBefore(op, n) == Cardinality({i \in 1..(n - 1) : IsUpdate(op.calls[i].call)})

\* the pending adds of the operation's Update, in the order they are met
PendingAdds(op) == adds_of(TheChange(op), op.orders[1])

\* C15: Call ordering inside one Update. Every update (swap) and delete call
\* comes before every create call; a delete call is made only when every
\* pending add has been consumed by a swap; the swaps carry the pending adds in
\* first-in order and the creates carry the adds left over; the calls of one
\* Update never hold both a delete and a create.
C15_UpdateOrder ==
    AnUpdate(lastOp)
    => /\ \A i, j \in 1..Len(lastOp.calls) :
             ((IsUpdate(lastOp.calls[i].call) \/ IsDelete(lastOp.calls[i].call))
                 /\ IsCreate(lastOp.calls[j].call)) => i < j
       /\ \A i \in 1..Len(lastOp.calls) :
             IsDelete(lastOp.calls[i].call)
                => PutsBefore(lastOp, i) = Len(PendingAdds(lastOp))
       /\ Updates(lastOp) <= Len(PendingAdds(lastOp))
       /\ PutPayloads(lastOp) = SubSeq(PendingAdds(lastOp), 1, Updates(lastOp))
       /\ PostPayloads(lastOp)
             = SubSeq(PendingAdds(lastOp), Updates(lastOp) + 1, Len(PendingAdds(lastOp)))
       /\ ~(Deletes(lastOp) > 0 /\ Creates(lastOp) > 0)

\* an Update of three pending adds that swapped two and created the third
C15_Witness ==
    /\ AnUpdate(lastOp)
    /\ Len(PendingAdds(lastOp)) = 3
    /\ Updates(lastOp) = 2
    /\ Creates(lastOp) = 1
    /\ \E i, j \in 1..Len(lastOp.calls) :
          i < j /\ IsUpdate(lastOp.calls[i].call) /\ IsCreate(lastOp.calls[j].call)

\* the fingerprint of a live record over the fields of the change's fragments,
\* with the dot appended to the content of CNAME, MX and NS
LiveFingerprint(ch, r) ==
    hash_content(
        [k \in DOMAIN gen_contents(ch.existing)[1] |->
            IF k = "content" /\ ch.new.type \in {"CNAME", "MX", "NS"}
            THEN r[k] \o <<".">> ELSE r[k]])

\* the fingerprints of the fragments the Update wants
Wanted(ch) == Hashes(gen_contents(ch.new))

\* the live record carries the name and type of the change
OfChange(ch, r) ==
    r.name = DropLast(Fqdn(ch.new.zone, ch.new.name)) /\ r.type = ch.new.type

\* C16: Update leaves correct records alone. In an Update, a live record of
\* the change's name and type whose fingerprint is in the wanted set gets no
\* update and no delete call; a live record of another name or type gets no
\* call at all; and no live record id is the target of more than one
\* mutating call.
C16_UpdateFrame ==
    AnUpdate(lastOp)
    => \A k \in 1..Len(lastOp.before) :
          /\ (OfChange(TheChange(lastOp), lastOp.before[k])
                 /\ LiveFingerprint(TheChange(lastOp), lastOp.before[k])
                        \in Wanted(TheChange(lastOp)))
                => MutationsOf(lastOp, lastOp.before[k].id) = {}
          /\ ~OfChange(TheChange(lastOp), lastOp.before[k])
                => MutationsOf(lastOp, lastOp.before[k].id) = {}
          /\ Cardinality(MutationsOf(lastOp, lastOp.before[k].id)) <= 1

\* an Update that left one live record of its name and type alone and
\* swapped another
C16_Witness ==
    /\ AnUpdate(lastOp)
    /\ \E k, l \in 1..Len(lastOp.before) :
          /\ OfChange(TheChange(lastOp), lastOp.before[k])
          /\ OfChange(TheChange(lastOp), lastOp.before[l])
          /\ LiveFingerprint(TheChange(lastOp), lastOp.before[k]) \in Wanted(TheChange(lastOp))
          /\ MutationsOf(lastOp, lastOp.before[k].id) = {}
          /\ Cardinality(MutationsOf(lastOp, lastOp.before[l].id)) = 1
          /\ IsUpdate(lastOp.calls[CHOOSE i \in MutationsOf(lastOp, lastOp.before[l].id) : TRUE].call)

-----------------------------------------------------------------------------
(* Claims on the caches and on recovery (Spec, SpecRecover)                 *)

\* the page numbers the operation asked of a listing, in the order asked
ListPages(op, what) ==
    LET gets == SelectSeq(op.calls, LAMBDA c : IsList(c.call) /\ c.call.what = what)
    IN  [k \in 1..Len(gets) |-> gets[k].call.page]

\* C17: Directory cache lifecycle. Once the zone list has been fetched no
\* operation requests it again, and the operation that fetches it does so
\* once; the record list of a zone is requested only by an operation that
\* found no cache entry for the zone name, and once, so a read of a zone
\* that has a cache entry makes no request at all; a read of a zone name
\* that has no id returns nothing, raises nothing, makes no record-list
\* request and leaves no cache entry; and a cache entry is removed only by an
\* apply to its zone that runs to completion.
C17_CacheLifecycle ==
    /\ lastOp.listed => ListPages(lastOp, "zones") = <<>>
    /\ ListPages(lastOp, "zones") = [i \in 1..Len(ListPages(lastOp, "zones")) |-> i]
    /\ lastOp.cached => ListPages(lastOp, "dns_records") = <<>>
    /\ ListPages(lastOp, "dns_records")
          = [i \in 1..Len(ListPages(lastOp, "dns_records")) |-> i]
    /\ (lastOp.op = "populate" /\ lastOp.cached)
          => lastOp.calls = <<>> /\ lastOp.raised = "none"
    /\ (lastOp.op = "populate" /\ ZoneResolved(lastOp) /\ lastOp.hosted = 0)
          => /\ lastOp.raised = "none"
             /\ lastOp.ret = {}
             /\ ListPages(lastOp, "dns_records") = <<>>
             /\ lastOp.zone \notin DOMAIN zone_records
    /\ lastOp.evicted # {}
          => /\ lastOp.op = "apply"
             /\ lastOp.raised = "none"
             /\ lastOp.evicted = {lastOp.zone}

\* an apply to a zone that had a cache entry aborted on a failed call and the
\* entry is still there
C17_Witness ==
    /\ lastOp.op = "apply" /\ lastOp.cached
    /\ lastOp.raised = "HTTPError"
    /\ RecordMutations(lastOp) # {}
    /\ lastOp.zone \in DOMAIN zone_records

\* the operation is an apply of an Update that raised after the service had
\* carried out one of its calls
FailedPartway(op) ==
    /\ op.op = "apply"
    /\ op.raised # "none"
    /\ TheChange(op).kind = "Update"
    /\ \E i \in 1..Len(op.calls) : IsMutation(op.calls[i].call) /\ op.calls[i].status = 200

\* C18: Recovery by re-run. After an apply failed partway through an Update,
\* the next run of the same provider reads the records the zone holds now, not
\* the list cached before the failed apply, and when that run's apply has
\* completed the live records of the changed name and type are the desired
\* ones.
C18_RecoveryByRerun ==
    /\ (lastOp.op = "populate" /\ FailedPartway(lastOp.prev))
          => /\ lastOp.raised = "none"
             /\ lastOp.ret = Decoded(lastOp.zone, remote.records)
    /\ (hist.ops = 3 /\ lastOp.op = "apply" /\ lastOp.raised = "none")
          => LiveIs(remote.records, TheChange(lastOp).new)

-----------------------------------------------------------------------------
(* Claims on the outcome of an Update and on ALIAS records (SpecEngine)     *)

\* C19: Update convergence. For every supported type, when the live records
\* of the change's name and type are the encoding of existing, one record per
\* fragment, and every wire call succeeds, then after the Update the live
\* records of that name and type are the encoding of new: every wanted
\* fragment once and nothing else.
C19_UpdateConverges ==
    (hist.ops = 1 /\ UpdateOfLive(lastOp))
        => LiveIs(remote.records, TheChange(lastOp).new)

\* the operation is the first apply, of a change of an ALIAS record whose
\* existing side is what the root CNAME record of the zone decodes to
AliasChange(kind) ==
    /\ FirstApply(kind)
    /\ lastOp.raised = "none"
    /\ TheChange(lastOp).existing.type = "ALIAS"
    /\ TheChange(lastOp).existing.name = Root
    /\ LiveIs(lastOp.before, TheChange(lastOp).existing)

\* the ids of the root CNAME records the zone held before the operation
RootCNAMEs(op) ==
    {op.before[k].id :
        k \in {j \in 1..Len(op.before) :
                  op.before[j].name = DropLast(op.zone) /\ op.before[j].type = "CNAME"}}

\* C20: ALIAS records reach their wire record. For an ALIAS record decoded
\* from a live root CNAME record, a Delete issues a delete call on that
\* record's id and leaves no root CNAME record; an Update that changes the
\* target issues an update call on that record's id and no create call, and
\* leaves the root CNAME record of the new target and no other.
C20_AliasReach ==
    /\ AliasChange("Delete")
          => /\ \A rid \in RootCNAMEs(lastOp) : DeletesOf(lastOp, rid) # {}
             /\ LiveOf(remote.records, TheChange(lastOp).existing) = <<>>
    /\ (AliasChange("Update")
            /\ TheChange(lastOp).new.value # TheChange(lastOp).existing.value)
          => /\ \A rid \in RootCNAMEs(lastOp) :
                   \E i \in MutationsOf(lastOp, rid) : IsUpdate(lastOp.calls[i].call)
             /\ Creates(lastOp) = 0
             /\ LiveIs(remote.records, TheChange(lastOp).new)

=============================================================================
